---- MODULE Spec2Model ----
(***************************************************************************)
(* Model of voice_video_editor_prototype.py: the command parser            *)
(* (CommandProcessor), the edit dispatcher (VideoEditor) and the session   *)
(* loop (VoiceVideoEditor).                                                *)
(*                                                                         *)
(* Python strings are modelled as sequences of one-character strings, so   *)
(* that the regular expressions, the formatting and the parsing of the     *)
(* source are computed character by character.                             *)
(***************************************************************************)
EXTENDS Integers, Sequences, FiniteSets, TLC

VARIABLES
    \* the session (VoiceVideoEditor)
    pc,                 \* position of run(): "start" | "menu" | "exited" | "crashed"
    current_file,       \* self.current_file (None before the first selection)
    edit_history,       \* self.edit_history
    lastStep,           \* what the last pass through the menu loop did
    \* the dispatcher (VideoEditor) and its environment
    MOVIEPY_AVAILABLE,  \* set once by the import of lines 9-13
    disk,               \* the paths for which os.path.exists holds
    openClips,          \* the clips opened by the collaborator and not closed
    lastEdit,           \* the last call of process_edit and what it did
    \* direct calls of the components
    ePc,                \* dispatcher harness: "ready" | "called" | "idle"
    eInstr,             \* the argument handed to process_edit
    pPc,                \* parser harness: "ready" | "parsed" | "idle"
    pCmd,               \* the command text handed to the parser
    pFile,              \* the current file handed to the parser
    pRes,               \* what CommandProcessor.process_command returned
    tsPc,               \* timestamp harness: "raw" | "norm" | "secs" | "idle"
    tsRaw,              \* the string handed to _parse_timestamp
    tsNorm,             \* the string _parse_timestamp returned
    tsSecs              \* the result of _timestamp_to_seconds on tsNorm

sessVars  == <<pc, current_file, edit_history, lastStep>>
editVars  == <<MOVIEPY_AVAILABLE, disk, openClips, lastEdit>>
eVars     == <<ePc, eInstr>>
parseVars == <<pPc, pCmd, pFile, pRes>>
tsVars    == <<tsPc, tsRaw, tsNorm, tsSecs>>
vars      == <<sessVars, editVars, eVars, parseVars, tsVars>>

(***************************************************************************)
(* Bounds of the model.                                                    *)
(***************************************************************************)
\* longest timestamp string enumerated for _parse_timestamp
MaxTsLen == 5
\* str(n) is enumerated for every n in 0..MaxSeconds (and some large hours)
MaxSeconds == 4000
\* most fragments joined into one command text handed to the parser
MaxClauses == 2
\* the session takes commands while edit_history holds fewer entries than
\* this and fewer files than this have been written
MaxHistory == 2

(***************************************************************************)
(* Characters and Python's int(), str(), float() on them.                  *)
(***************************************************************************)
Digits == {"0", "1", "2", "3", "4", "5", "6", "7", "8", "9"}

DigitVal(c) ==
    CASE c = "0" -> 0 [] c = "1" -> 1 [] c = "2" -> 2 [] c = "3" -> 3
      [] c = "4" -> 4 [] c = "5" -> 5 [] c = "6" -> 6 [] c = "7" -> 7
      [] c = "8" -> 8 [] c = "9" -> 9

DigitChar(d) ==
    CASE d = 0 -> "0" [] d = 1 -> "1" [] d = 2 -> "2" [] d = 3 -> "3"
      [] d = 4 -> "4" [] d = 5 -> "5" [] d = 6 -> "6" [] d = 7 -> "7"
      [] d = 8 -> "8" [] d = 9 -> "9"

AllDigits(s) == \A i \in 1..Len(s) : s[i] \in Digits

\* str(n) for a non-negative int: decimal digits, no padding
RECURSIVE Str(_)
Str(n) == IF n < 10 THEN <<DigitChar(n)>>
          ELSE Str(n \div 10) \o <<DigitChar(n % 10)>>

RECURSIVE DigitsValue(_)
DigitsValue(s) ==
    IF s = <<>> THEN 0
    ELSE DigitsValue(SubSeq(s, 1, Len(s) - 1)) * 10 + DigitVal(s[Len(s)])

\* int(s) / float(s) on a string of digits and colons: the value, or ValueError
\* (ok = FALSE) when s is empty or holds a non-digit.  float() of a digit
\* string is integral and exact below 2^53, which covers every value here.
PyNumber(s) ==
    IF s # <<>> /\ AllDigits(s) THEN [ok |-> TRUE, val |-> DigitsValue(s)]
    ELSE [ok |-> FALSE, val |-> 0]

\* format spec :02d
Pad2(n) == IF n < 10 THEN <<"0">> \o Str(n) ELSE Str(n)

\* index just after the longest run of digits of s that starts at i
RECURSIVE SkipDigits(_, _)
SkipDigits(s, i) ==
    IF i <= Len(s) /\ s[i] \in Digits THEN SkipDigits(s, i + 1) ELSE i

\* index just after an optional ch at i
SkipOpt(s, i, ch) == IF i <= Len(s) /\ s[i] = ch THEN i + 1 ELSE i

CharAt(s, i, ch) == i <= Len(s) /\ s[i] = ch

(***************************************************************************)
(* CommandProcessor._parse_timestamp                                       *)
(***************************************************************************)
\* the re.match of line 115: a prefix match
MatchHMS(s) ==
    LET a == SkipDigits(s, 1)
        b == SkipDigits(s, a + 1)
        c == SkipDigits(s, b + 1)
    IN  a > 1 /\ CharAt(s, a, ":") /\ b > a + 1 /\ CharAt(s, b, ":") /\ c > b + 1

\* the re.match of line 119
MatchMS(s) ==
    LET a == SkipDigits(s, 1)
        b == SkipDigits(s, a + 1)
    IN  a > 1 /\ CharAt(s, a, ":") /\ b > a + 1 /\ b = Len(s) + 1

\* the re.match of line 123
MatchS(s) == s # <<>> /\ AllDigits(s)

FormatHMS(hours, minutes, seconds) ==
    Pad2(hours) \o <<":">> \o Pad2(minutes) \o <<":">> \o Pad2(seconds)

\* divmod(seconds, 60) then divmod(minutes, 60), formatted with :02d
SecondsToHMS(n) ==
    LET minutes0 == n \div 60
        seconds  == n % 60
        hours    == minutes0 \div 60
        minutes  == minutes0 % 60
    IN  FormatHMS(hours, minutes, seconds)

Zero == <<"0", "0", ":", "0", "0", ":", "0", "0">>

ParseTimestamp(s) ==
    IF MatchHMS(s) THEN s
    ELSE IF MatchMS(s) THEN <<"0", "0", ":">> \o s
    ELSE IF MatchS(s) THEN SecondsToHMS(DigitsValue(s))
    ELSE Zero

(***************************************************************************)
(* VideoEditor._timestamp_to_seconds                                       *)
(***************************************************************************)
\* str.split(':')
RECURSIVE Split(_)
Split(s) ==
    IF \A i \in 1..Len(s) : s[i] # ":" THEN <<s>>
    ELSE LET k == CHOOSE i \in 1..Len(s) :
                      s[i] = ":" /\ \A j \in 1..(i - 1) : s[j] # ":"
         IN  <<SubSeq(s, 1, k - 1)>> \o Split(SubSeq(s, k + 1, Len(s)))

\* a plausible slip: hours weighted like minutes
HMSValue_Hours60(h, m, s) == h * 60 + m * 60 + s

HMSValue(h, m, s) == h * 3600 + m * 60 + s

TimestampToSeconds(t) ==
    LET parts == Split(t)
    IN  IF Len(parts) = 3
        THEN LET h == PyNumber(parts[1])
                 m == PyNumber(parts[2])
                 s == PyNumber(parts[3])
             IN  IF h.ok /\ m.ok /\ s.ok
                 THEN [ok |-> TRUE, val |-> HMSValue(h.val, m.val, s.val)]
                 ELSE [ok |-> FALSE, val |-> 0]
        ELSE IF Len(parts) = 2
        THEN LET m == PyNumber(parts[1])
                 s == PyNumber(parts[2])
             IN  IF m.ok /\ s.ok
                 THEN [ok |-> TRUE, val |-> m.val * 60 + s.val]
                 ELSE [ok |-> FALSE, val |-> 0]
        ELSE PyNumber(parts[1])

(***************************************************************************)
(* Regular-expression primitives (re.IGNORECASE searches of the parser).   *)
(***************************************************************************)
Lower(c) ==
    CASE c = "A" -> "a" [] c = "B" -> "b" [] c = "C" -> "c" [] c = "D" -> "d"
      [] c = "E" -> "e" [] c = "F" -> "f" [] c = "G" -> "g" [] c = "H" -> "h"
      [] c = "I" -> "i" [] c = "J" -> "j" [] c = "K" -> "k" [] c = "L" -> "l"
      [] c = "M" -> "m" [] c = "N" -> "n" [] c = "O" -> "o" [] c = "P" -> "p"
      [] c = "Q" -> "q" [] c = "R" -> "r" [] c = "S" -> "s" [] c = "T" -> "t"
      [] c = "U" -> "u" [] c = "V" -> "v" [] c = "W" -> "w" [] c = "X" -> "x"
      [] c = "Y" -> "y" [] c = "Z" -> "z" [] OTHER -> c

\* str.lower()
LowerStr(s) == [i \in 1..Len(s) |-> Lower(s[i])]

\* the characters of the model's alphabet that \w does not match
NonWordChars == {" ", ".", ":", "'", "\"", "/", "-"}
Quotes == {"'", "\""}

\* the lower-case literal w matches s at index i, ignoring case
LitAt(s, i, w) ==
    /\ i >= 1
    /\ i + Len(w) - 1 <= Len(s)
    /\ \A k \in 1..Len(w) : Lower(s[i + k - 1]) = w[k]

\* an alternation of literals at i: the index after the alternative that matches, 0 if none
\* (no alternative of the parser's groups is a prefix of another one here)
AltEnd(s, i, ws) ==
    IF \E w \in ws : LitAt(s, i, w)
    THEN i + Len(CHOOSE w \in ws : LitAt(s, i, w))
    ELSE 0

DigitAt(s, i) == i >= 1 /\ i <= Len(s) /\ s[i] \in Digits
WordAt(s, i) == i >= 1 /\ i <= Len(s) /\ s[i] \notin NonWordChars

\* the longest run of whitespace from i
RECURSIVE SkipSpaces(_, _)
SkipSpaces(s, i) ==
    IF i >= 1 /\ i <= Len(s) /\ s[i] = " " THEN SkipSpaces(s, i + 1) ELSE i

\* the longest run of word characters from i
RECURSIVE WordEnd(_, _)
WordEnd(s, i) == IF WordAt(s, i) THEN WordEnd(s, i + 1) ELSE i

\* the longest run of non-quote characters from i
RECURSIVE NonQuoteEnd(_, _)
NonQuoteEnd(s, i) ==
    IF i >= 1 /\ i <= Len(s) /\ s[i] \notin Quotes
    THEN NonQuoteEnd(s, i + 1) ELSE i

\* the longest run of digits and dots from i
RECURSIVE NumEnd(_, _)
NumEnd(s, i) ==
    IF i >= 1 /\ i <= Len(s) /\ (s[i] \in Digits \/ s[i] = ".")
    THEN NumEnd(s, i + 1) ELSE i

\* the timestamp group (digits with up to two optional colons) from a
\* digit at i: every quantifier is greedy and what
\* follows the group never matches a digit or a colon, so the longest
\* match is the one the engine settles on
TsEnd(s, i) ==
    SkipDigits(s, SkipOpt(s, SkipDigits(s, SkipOpt(s, SkipDigits(s, i), ":")), ":"))

MinOf(S) == CHOOSE x \in S : \A y \in S : x <= y
MaxOf(S) == CHOOSE x \in S : \A y \in S : x >= y

NoMatch == [ok |-> FALSE, g1 |-> <<>>, g2 |-> <<>>]

(***************************************************************************)
(* The trim detector: the re.search of line 25.                            *)
(***************************************************************************)
\* the part of the pattern from the literal from on, anchored at q
TrimRest(s, q) ==
    LET r == SkipSpaces(s, q + 4)
        e == TsEnd(s, r)
        f == SkipSpaces(s, e)
        g == SkipSpaces(s, f + 2)
        h == TsEnd(s, g)
    IN  IF /\ LitAt(s, q, <<"f", "r", "o", "m">>)
           /\ r > q + 4 /\ DigitAt(s, r)
           /\ f > e /\ LitAt(s, f, <<"t", "o">>)
           /\ g > f + 2 /\ DigitAt(s, g)
        THEN [ok |-> TRUE, g1 |-> SubSeq(s, r, e - 1), g2 |-> SubSeq(s, g, h - 1)]
        ELSE NoMatch

\* re.search: the leftmost start, then the shortest lazy gap
TrimSearch(s) ==
    LET kw == {<<"t", "r", "i", "m">>, <<"c", "u", "t">>}
        froms(p) == {q \in AltEnd(s, p, kw)..Len(s) : TrimRest(s, q).ok}
        P == {p \in 1..Len(s) : AltEnd(s, p, kw) > 0 /\ froms(p) # {}}
    IN  IF P = {} THEN NoMatch ELSE TrimRest(s, MinOf(froms(MinOf(P))))

(***************************************************************************)
(* The text detector: the re.search of line 38.                            *)
(***************************************************************************)
\* the part of the pattern after group 1, anchored at e
TextTail(s, e) ==
    LET q == IF e <= Len(s) /\ s[e] \in Quotes THEN e + 1 ELSE e
        u == SkipSpaces(s, q)
        v == SkipSpaces(s, u + 2)
        w == SkipSpaces(s, v + 3)
        viaThe == LitAt(s, v, <<"t", "h", "e">>) /\ w > v + 3 /\ WordAt(s, w)
        g == IF viaThe THEN w ELSE v
    IN  IF /\ u > q
           /\ AltEnd(s, u, {<<"a", "t">>, <<"i", "n">>}) > 0
           /\ v > u + 2
           /\ WordAt(s, g)
        THEN [ok |-> TRUE, g1 |-> <<>>, g2 |-> SubSeq(s, g, WordEnd(s, g) - 1)]
        ELSE NoMatch

\* the indices at which group 1 can start, in the order the engine tries
\* them; t is the index after "text"
TextStarts(s, t) ==
    LET u  == SkipSpaces(s, t)
        a  == u + 6
        u2 == SkipSpaces(s, a)
        withSaying ==
            IF LitAt(s, u, <<"s", "a", "y", "i", "n", "g">>) /\ u2 > a
            THEN (IF u2 <= Len(s) /\ s[u2] \in Quotes THEN <<u2 + 1>> ELSE <<>>)
                 \o <<u2>> \o [i \in 1..(u2 - a - 1) |-> u2 - i]
            ELSE <<>>
        plain ==
            (IF u <= Len(s) /\ s[u] \in Quotes THEN <<u + 1>> ELSE <<>>) \o <<u>>
        fewerSpaces == [i \in 1..(u - t - 1) |-> u - i]
    IN  withSaying \o plain \o fewerSpaces

\* the match anchored at p
TextAt(s, p) ==
    LET b == AltEnd(s, p, {<<"a", "d", "d">>, <<"i", "n", "s", "e", "r", "t">>,
                           <<"p", "l", "a", "c", "e">>})
        c == SkipSpaces(s, b)
        t == c + 4
        starts == TextStarts(s, t)
        ends(S) == {e \in (S + 1)..NonQuoteEnd(s, S) : TextTail(s, e).ok}
        K == {k \in 1..Len(starts) : ends(starts[k]) # {}}
    IN  IF /\ b > 0 /\ c > b
           /\ LitAt(s, c, <<"t", "e", "x", "t">>)
           /\ SkipSpaces(s, t) > t
           /\ K # {}
        THEN LET S == starts[MinOf(K)]
                 e == MaxOf(ends(S))
             IN  [ok |-> TRUE, g1 |-> SubSeq(s, S, e - 1), g2 |-> TextTail(s, e).g2]
        ELSE NoMatch

TextSearch(s) ==
    LET P == {p \in 1..Len(s) : TextAt(s, p).ok}
    IN  IF P = {} THEN NoMatch ELSE TextAt(s, MinOf(P))

(***************************************************************************)
(* The time clause: the re.search of lines 45 and 65.                      *)
(***************************************************************************)
TimeAt(s, p) ==
    LET b  == AltEnd(s, p, {<<"a", "t">>, <<"f", "r", "o", "m">>})
        u  == SkipSpaces(s, b)
        t1 == SkipSpaces(s, u + 4)
        t2 == SkipSpaces(s, u + 9)
        d  == IF LitAt(s, u, <<"t", "i", "m", "e">>) /\ DigitAt(s, t1) THEN t1
              ELSE IF LitAt(s, u, <<"t", "i", "m", "e", "s", "t", "a", "m", "p">>)
                      /\ DigitAt(s, t2) THEN t2
              ELSE u
    IN  IF b > 0 /\ u > b /\ DigitAt(s, d)
        THEN [ok |-> TRUE, g1 |-> SubSeq(s, d, TsEnd(s, d) - 1), g2 |-> <<>>]
        ELSE NoMatch

TimeSearch(s) ==
    LET P == {p \in 1..Len(s) : TimeAt(s, p).ok}
    IN  IF P = {} THEN NoMatch ELSE TimeAt(s, MinOf(P))

(***************************************************************************)
(* The transition detector: the re.search of line 59.                      *)
(***************************************************************************)
\* group 1, the spaces and the literal transition, anchored at v
TransitionWord(s, v) ==
    LET w == WordEnd(s, v)
        x == SkipSpaces(s, w)
    IN  IF /\ w > v /\ x > w
           /\ LitAt(s, x, <<"t", "r", "a", "n", "s", "i", "t", "i", "o", "n">>)
        THEN [ok |-> TRUE, g1 |-> SubSeq(s, v, w - 1), g2 |-> <<>>]
        ELSE NoMatch

TransitionAt(s, p) ==
    LET b == AltEnd(s, p, {<<"a", "d", "d">>, <<"i", "n", "s", "e", "r", "t">>,
                           <<"a", "p", "p", "l", "y">>})
        u == SkipSpaces(s, b)
        v == SkipSpaces(s, u + 1)
    IN  IF ~(b > 0 /\ u > b) THEN NoMatch
        ELSE IF LitAt(s, u, <<"a">>) /\ v > u + 1 /\ TransitionWord(s, v).ok
        THEN TransitionWord(s, v)
        ELSE TransitionWord(s, u)

TransitionSearch(s) ==
    LET P == {p \in 1..Len(s) : TransitionAt(s, p).ok}
    IN  IF P = {} THEN NoMatch ELSE TransitionAt(s, MinOf(P))

(***************************************************************************)
(* The speed detector: the re.search of line 78.                           *)
(***************************************************************************)
SpeedAt(s, p) ==
    LET b == AltEnd(s, p, {<<"c", "h", "a", "n", "g", "e">>, <<"s", "e", "t">>,
                           <<"a", "d", "j", "u", "s", "t">>})
        u == SkipSpaces(s, b)
        t == SkipSpaces(s, u + 3)
        v == IF LitAt(s, u, <<"t", "h", "e">>) /\ t > u + 3 THEN t ELSE u
        w == SkipSpaces(s, v + 5)
        c == AltEnd(s, w, {<<"t", "o">>, <<"b", "y">>})
        x == SkipSpaces(s, c)
        y == NumEnd(s, x)
    IN  IF /\ b > 0 /\ u > b
           /\ LitAt(s, v, <<"s", "p", "e", "e", "d">>)
           /\ w > v + 5
           /\ c > 0 /\ x > c /\ y > x
        THEN [ok |-> TRUE, g1 |-> SubSeq(s, x, y - 1), g2 |-> <<>>]
        ELSE NoMatch

SpeedSearch(s) ==
    LET P == {p \in 1..Len(s) : SpeedAt(s, p).ok}
    IN  IF P = {} THEN NoMatch ELSE SpeedAt(s, MinOf(P))

(***************************************************************************)
(* The crop detector: the re.search of line 89.                            *)
(***************************************************************************)
CropSearch(s) == \E p \in 1..Len(s) : LitAt(s, p, <<"c", "r", "o", "p">>)

(***************************************************************************)
(* CommandProcessor._extract_filename: the re.search of line 107.          *)
(***************************************************************************)
VideoExts == {<<"m", "p", "4">>, <<"m", "o", "v">>, <<"a", "v", "i">>, <<"m", "k", "v">>}

\* group 1 is lazy: from S, the nearest dot followed by an extension, with
\* at least one character before it and no quote on the way
FilenameEnds(s, S) ==
    {d \in (S + 1)..NonQuoteEnd(s, S) :
        d <= Len(s) /\ s[d] = "." /\ AltEnd(s, d + 1, VideoExts) > 0}

\* the indices at which group 1 can start, in the order the engine tries
\* them; t is the index after the literal file or video
FilenameStarts(s, t) ==
    LET u == SkipSpaces(s, t)
    IN  (IF u <= Len(s) /\ s[u] \in Quotes THEN <<u + 1>> ELSE <<>>)
        \o <<u>> \o [i \in 1..(u - t - 1) |-> u - i]

FilenameAt(s, p) ==
    LET t == AltEnd(s, p, {<<"f", "i", "l", "e">>, <<"v", "i", "d", "e", "o">>})
        starts == FilenameStarts(s, t)
        K == {k \in 1..Len(starts) : FilenameEnds(s, starts[k]) # {}}
    IN  IF t > 0 /\ SkipSpaces(s, t) > t /\ K # {}
        THEN LET S == starts[MinOf(K)]
                 d == MinOf(FilenameEnds(s, S))
             IN  [ok |-> TRUE, g1 |-> SubSeq(s, S, d + 3), g2 |-> <<>>]
        ELSE NoMatch

FilenameSearch(s) ==
    LET P == {p \in 1..Len(s) : FilenameAt(s, p).ok}
    IN  IF P = {} THEN NoMatch ELSE FilenameAt(s, MinOf(P))

(***************************************************************************)
(* Library functions the parser and the dispatcher call.                   *)
(***************************************************************************)
\* os.path.basename: what follows the last slash
Basename(path) ==
    LET S == {i \in 1..Len(path) : path[i] = "/"}
    IN  IF S = {} THEN path ELSE SubSeq(path, MaxOf(S) + 1, Len(path))

\* os.path.splitext: split at the last dot of the last component, unless
\* only dots precede it there
Splitext(path) ==
    LET S   == {i \in 1..Len(path) : path[i] = "/"}
        sep == IF S = {} THEN 0 ELSE MaxOf(S)
        D   == {i \in (sep + 1)..Len(path) : path[i] = "."}
        dot == IF D = {} THEN 0 ELSE MaxOf(D)
    IN  IF dot > 0 /\ \E j \in (sep + 1)..(dot - 1) : path[j] # "."
        THEN <<SubSeq(path, 1, dot - 1), SubSeq(path, dot, Len(path))>>
        ELSE <<path, <<>> >>

\* float(s) for s a run of digits and dots: a ValueError unless s holds at
\* most one dot and at least one digit
FloatOk(s) ==
    /\ Cardinality({i \in 1..Len(s) : s[i] = "."}) <= 1
    /\ \E i \in 1..Len(s) : s[i] \in Digits

RECURSIVE StripLeadingZeros(_)
StripLeadingZeros(s) ==
    IF Len(s) > 1 /\ s[1] = "0" THEN StripLeadingZeros(Tail(s)) ELSE s

RECURSIVE StripTrailingZeros(_)
StripTrailingZeros(s) ==
    IF Len(s) > 1 /\ s[Len(s)] = "0"
    THEN StripTrailingZeros(SubSeq(s, 1, Len(s) - 1)) ELSE s

\* the float parsed from s as the f-string of line 85 prints it (repr);
\* positional notation, which is what repr gives for the short decimals of
\* the model (1e-4 <= x < 1e16)
FloatRepr(s) ==
    LET D    == {i \in 1..Len(s) : s[i] = "."}
        dot  == IF D = {} THEN Len(s) + 1 ELSE MinOf(D)
        ip   == SubSeq(s, 1, dot - 1)
        fp   == SubSeq(s, dot + 1, Len(s))
    IN  StripLeadingZeros(IF ip = <<>> THEN <<"0">> ELSE ip)
        \o <<".">>
        \o StripTrailingZeros(IF fp = <<>> THEN <<"0">> ELSE fp)

(***************************************************************************)
(* CommandProcessor.process_command                                        *)
(***************************************************************************)
Returned(d) == [raised |-> FALSE, value |-> d]
\* an exception leaves the function: nothing is returned
Raised == [raised |-> TRUE, value |-> [action |-> "none"]]

\* every search the parser can make on a command text (lines 25, 38, 45,
\* 59, 65, 78, 89 and 107); the searches read the text alone
Searches(command_text) ==
    [trim       |-> TrimSearch(command_text),
     text       |-> TextSearch(command_text),
     transition |-> TransitionSearch(command_text),
     speed      |-> SpeedSearch(command_text),
     crop       |-> CropSearch(command_text),
     time       |-> TimeSearch(command_text),
     filename   |-> FilenameSearch(command_text)]

\* _extract_filename, given the search of line 107
ExtractFilename(m, default_file) ==
    IF m.filename.ok THEN m.filename.g1 ELSE default_file

\* the optional time clause of lines 44-47 and 64-67
TimeClause(m) == IF m.time.ok THEN ParseTimestamp(m.time.g1) ELSE Zero

TrimInstruction(m, cur_file) ==
    [action      |-> "trim",
     file_name   |-> ExtractFilename(m, cur_file),
     start_time  |-> ParseTimestamp(m.trim.g1),
     end_time    |-> ParseTimestamp(m.trim.g2),
     output_file |-> <<"t", "r", "i", "m", "m", "e", "d", "_">>
                     \o Basename(cur_file)]

TextInstruction(m, cur_file) ==
    [action      |-> "add_text",
     file_name   |-> ExtractFilename(m, cur_file),
     text        |-> m.text.g1,
     position    |-> LowerStr(m.text.g2),
     time        |-> TimeClause(m),
     output_file |-> <<"t", "e", "x", "t", "_">> \o Basename(cur_file)]

TransitionInstruction(m, cur_file) ==
    [action          |-> "add_transition",
     file_name       |-> ExtractFilename(m, cur_file),
     transition_type |-> LowerStr(m.transition.g1),
     time            |-> TimeClause(m),
     output_file     |-> LowerStr(m.transition.g1) \o <<"_">>
                         \o Basename(cur_file)]

SpeedInstruction(m, cur_file) ==
    [action       |-> "adjust_speed",
     file_name    |-> ExtractFilename(m, cur_file),
     speed_factor |-> FloatRepr(m.speed.g1),
     output_file  |-> <<"s", "p", "e", "e", "d">> \o FloatRepr(m.speed.g1)
                      \o <<"x", "_">> \o Basename(cur_file)]

CropInstruction(m, cur_file) ==
    [action      |-> "crop",
     file_name   |-> ExtractFilename(m, cur_file),
     output_file |-> <<"c", "r", "o", "p", "p", "e", "d", "_">>
                     \o Basename(cur_file)]

UnknownInstruction(m, command_text, cur_file) ==
    [action           |-> "unknown",
     file_name        |-> ExtractFilename(m, cur_file),
     original_command |-> command_text,
     error            |-> "Could not determine specific edit command"]

\* a plausible slip: the loosest detector is tried before the others
Detect_CropFirst(m, command_text, cur_file) ==
    IF m.crop THEN Returned(CropInstruction(m, cur_file))
    ELSE IF m.trim.ok THEN Returned(TrimInstruction(m, cur_file))
    ELSE IF m.text.ok THEN Returned(TextInstruction(m, cur_file))
    ELSE IF m.transition.ok THEN Returned(TransitionInstruction(m, cur_file))
    ELSE IF m.speed.ok
    THEN IF FloatOk(m.speed.g1)
         THEN Returned(SpeedInstruction(m, cur_file))
         ELSE Raised
    ELSE Returned(UnknownInstruction(m, command_text, cur_file))

\* the detectors in the order of lines 25-103; m holds the searches
Detect(m, command_text, cur_file) ==
    IF m.trim.ok THEN Returned(TrimInstruction(m, cur_file))
    ELSE IF m.text.ok THEN Returned(TextInstruction(m, cur_file))
    ELSE IF m.transition.ok THEN Returned(TransitionInstruction(m, cur_file))
    ELSE IF m.speed.ok
    THEN IF FloatOk(m.speed.g1)
         THEN Returned(SpeedInstruction(m, cur_file))
         ELSE Raised
    ELSE IF m.crop THEN Returned(CropInstruction(m, cur_file))
    ELSE Returned(UnknownInstruction(m, command_text, cur_file))

(***************************************************************************)
(* Values.                                                                 *)
(***************************************************************************)
\* Python's None against a str value
None == [some |-> FALSE, v |-> <<>>]
Some(x) == [some |-> TRUE, v |-> x]
\* the truth value Python gives None, "" and a non-empty str
Truthy(o) == o.some /\ o.v # <<>>

\* dict.get(key, default)
Get(d, key, default) == IF key \in DOMAIN d THEN d[key] ELSE default

\* datetime.now() is the wall clock: each read is an input of the
\* environment, here the seconds field of a fixed date
TimeValues == {0, 1}
\* the session is checked with the clock held at one reading
SessionTimes == {0}
\* strftime("%Y%m%d_%H%M%S")
Stamp(now) ==
    <<"2", "0", "2", "5", "0", "1", "0", "1", "_", "0", "0", "0", "0">> \o Pad2(now)
\* strftime("%Y-%m-%d %H:%M:%S")
LogStamp(now) ==
    <<"2", "0", "2", "5", "-", "0", "1", "-", "0", "1", " ",
      "0", "0", ":", "0", "0", ":">> \o Pad2(now)

(***************************************************************************)
(* The collaborator (moviepy), as far as the dispatcher sees it: opening a *)
(* clip, deriving a clip and writing the result can each raise, and a clip *)
(* has a duration.                                                         *)
(***************************************************************************)
Faults == {"none", "open", "op", "write", "write_partial"}
ClipDurations == {60, 200}

NoCall == [op |-> "none", a |-> 0, b |-> 0]

Min2(a, b) == IF a <= b THEN a ELSE b

(***************************************************************************)
(* VideoEditor._process_with_moviepy                                       *)
(***************************************************************************)
\* what one call does: the pair it returns, the file it writes, the clips
\* it leaves open and the call it makes on the source clip
EditOutcome(path, result, output_file, written, leaked, call) ==
    [path |-> path, result |-> result, output_file |-> output_file,
     written |-> written, leaked |-> leaked, call |-> call]

\* lines 249-274: write_videofile, the two close calls, the return
WriteAndClose(output_file, derived, call, fault) ==
    IF fault \in {"write", "write_partial"}
    THEN EditOutcome("moviepy", "moviepy_error", None,
                     IF fault = "write_partial" THEN {output_file} ELSE {},
                     {"clip"} \cup (IF derived THEN {"result_clip"} ELSE {}),
                     call)
    ELSE EditOutcome("moviepy", "success", Some(output_file), {output_file},
                     {}, call)

\* the exception handler of lines 276-277, reached with the source clip open
CaughtAfterOpen(call) ==
    EditOutcome("moviepy", "moviepy_error", None, {}, {"clip"}, call)

\* lines 198-201
MoviepyTrim(output_file, d, fault, duration) ==
    LET start_time == TimestampToSeconds(Get(d, "start_time", Zero))
        end_time   == TimestampToSeconds(Get(d, "end_time", Str(duration)))
        call       == [op |-> "subclip", a |-> start_time.val, b |-> end_time.val]
    IN  IF ~(start_time.ok /\ end_time.ok) THEN CaughtAfterOpen(NoCall)
        ELSE IF fault = "op" THEN CaughtAfterOpen(call)
        ELSE WriteAndClose(output_file, TRUE, call, fault)

\* lines 203-225
MoviepyText(output_file, d, fault, duration) ==
    LET time_sec == TimestampToSeconds(Get(d, "time", Zero))
        txt_duration == Min2(5, duration - time_sec.val)
        call == [op |-> "text", a |-> time_sec.val, b |-> txt_duration]
    IN  IF ~time_sec.ok THEN CaughtAfterOpen(NoCall)
        ELSE IF fault = "op" THEN CaughtAfterOpen(call)
        ELSE WriteAndClose(output_file, TRUE, call, fault)

\* lines 227-235
MoviepyTransition(output_file, d, fault) ==
    LET transition_type == Get(d, "transition_type", <<"f", "a", "d", "e">>)
    IN  IF transition_type = <<"f", "a", "d", "e">>
        THEN LET call == [op |-> "fadein", a |-> 2, b |-> 0]
             IN  IF fault = "op" THEN CaughtAfterOpen(call)
                 ELSE WriteAndClose(output_file, TRUE, call, fault)
        ELSE WriteAndClose(output_file, FALSE, NoCall, fault)

\* lines 237-239; speed_factor is already a float, so float() cannot raise
MoviepySpeed(output_file, d, fault) ==
    LET call == [op |-> "speedx", a |-> 0, b |-> 0]
    IN  IF fault = "op" THEN CaughtAfterOpen(call)
        ELSE WriteAndClose(output_file, TRUE, call, fault)

\* lines 241-243: the early return, with the source clip still open
MoviepyUnsupported ==
    EditOutcome("moviepy", "not_supported", None, {}, {"clip"}, NoCall)

ProcessWithMoviepy(action, file_name, output_file, d, fault, duration) ==
    IF fault = "open"
    THEN EditOutcome("moviepy", "moviepy_error", None, {}, {}, NoCall)
    ELSE IF action = "trim" THEN MoviepyTrim(output_file, d, fault, duration)
    ELSE IF action = "add_text" THEN MoviepyText(output_file, d, fault, duration)
    ELSE IF action = "add_transition" THEN MoviepyTransition(output_file, d, fault)
    ELSE IF action = "adjust_speed" THEN MoviepySpeed(output_file, d, fault)
    ELSE MoviepyUnsupported

(***************************************************************************)
(* VideoEditor._simulate_editing                                           *)
(***************************************************************************)
\* a plausible slip: the simulation refuses the actions moviepy refuses
SimulateEditing_Refuses(action, file_name, output_file, d) ==
    IF action \in {"crop", "unknown"}
    THEN EditOutcome("simulation", "not_supported", None, {}, {}, NoCall)
    ELSE EditOutcome("simulation", "success", Some(output_file), {}, {}, NoCall)

SimulateEditing(action, file_name, output_file, d) ==
    EditOutcome("simulation", "success", Some(output_file), {}, {}, NoCall)

(***************************************************************************)
(* VideoEditor.process_edit                                                *)
(***************************************************************************)
\* the argument: a dict, or a str that json.loads decodes to a dict or
\* rejects
AsDict(d) == [encoded |-> FALSE, decodable |-> TRUE, dict |-> d]
AsJson(d) == [encoded |-> TRUE, decodable |-> TRUE, dict |-> d]
BadJson == [encoded |-> TRUE, decodable |-> FALSE, dict |-> [action |-> "none"]]

\* VideoEditor.__init__
EditorType(available) == IF available THEN "moviepy" ELSE "simulation"

\* lines 181-184
StampedName(output_file, now) ==
    LET ne == Splitext(output_file)
    IN  ne[1] \o <<"_">> \o Stamp(now) \o ne[2]

ProcessEdit(edit_instructions, available, files, now, fault, duration) ==
    IF edit_instructions.encoded /\ ~edit_instructions.decodable
    THEN EditOutcome("invalid", "invalid_format", None, {}, {}, NoCall)
    ELSE LET d == edit_instructions.dict
             action == Get(d, "action", "unknown")
             file_name == Get(d, "file_name", <<"u", "n", "k", "n", "o", "w", "n">>)
             output_file == StampedName(
                 Get(d, "output_file",
                     <<"o", "u", "t", "p", "u", "t", "_">> \o file_name), now)
         IN  IF EditorType(available) = "moviepy" /\ file_name \in files
             THEN ProcessWithMoviepy(action, file_name, output_file, d,
                                     fault, duration)
             ELSE SimulateEditing(action, file_name, output_file, d)

NoEdit == [path |-> "none", result |-> "none", output_file |-> None,
           written |-> {}, leaked |-> {}, call |-> NoCall,
           file_name |-> <<>>, duration |-> 0, action |-> "none"]

\* the outcome of a call, with the instruction and the clip it was about
EditRecord(edit_instructions, out, duration) ==
    [path |-> out.path, result |-> out.result, output_file |-> out.output_file,
     written |-> out.written, leaked |-> out.leaked, call |-> out.call,
     file_name |-> Get(edit_instructions.dict, "file_name", <<>>),
     duration |-> IF out.path = "moviepy" THEN duration ELSE 0,
     action |-> Get(edit_instructions.dict, "action", "unknown")]

\* the clips a call leaves open, named by the file they read
Leaked(rec) == {[file |-> rec.file_name, clip |-> c] : c \in rec.leaked}

(***************************************************************************)
(* VoiceVideoEditor._select_file                                           *)
(***************************************************************************)
\* what the user can type at the prompts for a path or a file name
FileInputs ==
    { <<"v", "a", "c", "a", "t", "i", "o", "n", ".", "m", "p", "4">>,
      <<"d", "e", "f", "a", "u", "l", "t", "_", "v", "i", "d", "e", "o",
        ".", "m", "p", "4">>,
      <<>> }

\* the one file the working directory holds when the program starts
DiskInit == { <<"v", "a", "c", "a", "t", "i", "o", "n", ".", "m", "p", "4">> }

\* f.lower().endswith(('.mp4', '.mov', '.avi', '.mkv'))
HasVideoExt(f) ==
    /\ Len(f) >= 4
    /\ f[Len(f) - 3] = "."
    /\ LowerStr(SubSeq(f, Len(f) - 2, Len(f))) \in VideoExts

\* line 416: the entries of os.listdir('.') that name a video
VideoFiles(files) ==
    {f \in files : HasVideoExt(f) /\ \A i \in 1..Len(f) : f[i] # "/"}

\* the values _select_file can leave in current_file: a listed file, a
\* custom path that exists, or (on every other branch) the name typed at
\* "Enter a filename for simulation: "
SelectFileOutcomes(files) ==
    LET video_files == VideoFiles(files)
        custom      == {path \in FileInputs : path \in files}
        simulation  == FileInputs
    IN  IF video_files # {}
        THEN video_files \cup custom \cup simulation
        ELSE simulation \cup custom

(***************************************************************************)
(* VoiceVideoEditor.process_command                                        *)
(***************************************************************************)
\* what VoiceRecognizer.listen can return in a session
SessionCommands ==
    { <<>>,
      <<"t", "r", "i", "m", " ", "f", "r", "o", "m", " ", "1", ":", "3", "0",
        " ", "t", "o", " ", "2", ":", "4", "5">>,
      <<"s", "e", "t", " ", "s", "p", "e", "e", "d", " ", "t", "o", " ",
        "1", ".", "2", ".", "3">>,
      <<"c", "r", "o", "p">>,
      <<"u", "n", "d", "o">> }

\* the searches on the session's command texts, made once
SessionSearches == [c \in SessionCommands |-> Searches(c)]

SearchesOf(command_text) ==
    IF command_text \in DOMAIN SessionSearches
    THEN SessionSearches[command_text]
    ELSE Searches(command_text)

\* CommandProcessor.process_command
ParseCommand(command_text, cur_file) ==
    Detect(SearchesOf(command_text), command_text, cur_file)

NotParsed == [raised |-> FALSE, value |-> [action |-> "none"]]

\* a plausible slip: the early return of lines 335-340 is lost
IsUnknown_Never(instr) == FALSE

\* line 335
IsUnknown(instr) == instr.action = "unknown"

\* a plausible slip: the two file names of the entry are exchanged
HistoryEntry_Swapped(cur, output_file, action, now) ==
    [input_file |-> output_file, output_file |-> cur, action |-> action,
     timestamp |-> LogStamp(now)]

HistoryEntry(cur, output_file, action, now) ==
    [input_file |-> cur, output_file |-> output_file, action |-> action,
     timestamp |-> LogStamp(now)]

\* a plausible slip: the test of line 347 is lost
Commit_Unconditional(cur, history, action, output_file, now) ==
    [current_file |-> output_file,
     edit_history |-> Append(history,
                             HistoryEntry(cur.v, output_file.v, action, now))]

\* lines 346-354
Commit(cur, history, action, output_file, now) ==
    IF Truthy(output_file)
    THEN [current_file |-> output_file,
          edit_history |-> Append(history,
                                  HistoryEntry(cur.v, output_file.v, action, now))]
    ELSE [current_file |-> cur, edit_history |-> history]

StepOutcome(raised, cur, history, command, parsed, dispatched, edit) ==
    [raised |-> raised, current_file |-> cur, edit_history |-> history,
     command |-> command, parsed |-> parsed, dispatched |-> dispatched,
     edit |-> edit]

\* lines 346-356, given what process_edit returned
AfterEdit(cur, history, command, parsed, arg, out, now2, duration) ==
    StepOutcome(FALSE,
                Commit(cur, history, parsed.value.action, out.output_file,
                       now2).current_file,
                Commit(cur, history, parsed.value.action, out.output_file,
                       now2).edit_history,
                command, parsed, TRUE, EditRecord(arg, out, duration))

\* lines 335-356, given what the parser did
AfterParse(cur, history, available, files, command, parsed, now1, now2, fault, duration) ==
    IF parsed.raised
    THEN StepOutcome(TRUE, cur, history, command, parsed, FALSE, NoEdit)
    ELSE IF IsUnknown(parsed.value)
    THEN StepOutcome(FALSE, cur, history, command, parsed, FALSE, NoEdit)
    ELSE AfterEdit(cur, history, command, parsed, AsDict(parsed.value),
                   ProcessEdit(AsDict(parsed.value), available, files, now1,
                               fault, duration),
                   now2, duration)

\* one call of process_command: command is what listen() returns, now1 and
\* now2 the clock at lines 182 and 352, fault and duration the collaborator
ProcessCommand(cur, history, available, files, command, now1, now2, fault, duration) ==
    IF ~Truthy(cur)
    THEN StepOutcome(FALSE, cur, history, <<>>, NotParsed, FALSE, NoEdit)
    ELSE IF command = <<>>
    THEN StepOutcome(FALSE, cur, history, command, NotParsed, FALSE, NoEdit)
    ELSE AfterParse(cur, history, available, files, command,
                    ParseCommand(command, cur.v), now1, now2, fault, duration)

(***************************************************************************)
(* VoiceVideoEditor.run                                                    *)
(***************************************************************************)
\* what the last pass through the loop did: the menu choice, the text
\* listen() returned, what the parser did with it, whether process_edit was
\* called and the pair it returned
Step(choice, command, parsed, dispatched, result, output_file) ==
    [choice |-> choice, command |-> command, parsed |-> parsed,
     dispatched |-> dispatched, result |-> result,
     output_file |-> output_file]

\* a pass that does not reach the parser
PlainStep(choice) == Step(choice, <<>>, NotParsed, FALSE, "none", None)

NoStep == PlainStep("none")

\* lines 360-367: the welcome, the first selection, the early return
RunStart ==
    /\ pc = "start"
    /\ \E f \in SelectFileOutcomes(disk) :
          /\ current_file' = Some(f)
          /\ pc' = IF f # <<>> THEN "menu" ELSE "exited"
    /\ lastStep' = PlainStep("start")
    /\ UNCHANGED <<edit_history, editVars>>

\* choice "1"
Choice1 ==
    /\ pc = "menu"
    /\ Len(edit_history) < MaxHistory
    /\ Cardinality(disk \ DiskInit) < MaxHistory
    /\ \E command \in SessionCommands, now1 \in SessionTimes, now2 \in SessionTimes,
          fault \in Faults, duration \in ClipDurations :
          \E r \in {ProcessCommand(current_file, edit_history, MOVIEPY_AVAILABLE,
                                   disk, command, now1, now2, fault, duration)} :
              /\ pc' = IF r.raised THEN "crashed" ELSE "menu"
              /\ current_file' = r.current_file
              /\ edit_history' = r.edit_history
              /\ lastStep' = Step("1", r.command, r.parsed, r.dispatched,
                                  r.edit.result, r.edit.output_file)
              /\ disk' = disk \cup r.edit.written
              /\ openClips' = openClips \cup Leaked(r.edit)
    /\ UNCHANGED <<MOVIEPY_AVAILABLE, lastEdit>>

\* choice "2"
Choice2 ==
    /\ pc = "menu"
    /\ \E f \in SelectFileOutcomes(disk) : current_file' = Some(f)
    /\ lastStep' = PlainStep("2")
    /\ UNCHANGED <<pc, edit_history, editVars>>

\* choice "3": _show_history only prints
Choice3 ==
    /\ pc = "menu"
    /\ lastStep' = PlainStep("3")
    /\ UNCHANGED <<pc, current_file, edit_history, editVars>>

\* choice "4"
Choice4 ==
    /\ pc = "menu"
    /\ pc' = "exited"
    /\ lastStep' = PlainStep("4")
    /\ UNCHANGED <<current_file, edit_history, editVars>>

\* any other input at the menu
ChoiceInvalid ==
    /\ pc = "menu"
    /\ lastStep' = PlainStep("invalid")
    /\ UNCHANGED <<pc, current_file, edit_history, editVars>>

SessionIdle ==
    /\ pc = "idle" /\ current_file = None /\ edit_history = <<>>
    /\ lastStep = NoStep

EditorFresh ==
    /\ MOVIEPY_AVAILABLE \in BOOLEAN
    /\ disk = DiskInit /\ openClips = {} /\ lastEdit = NoEdit

EditorIdle ==
    /\ MOVIEPY_AVAILABLE = FALSE
    /\ disk = DiskInit /\ openClips = {} /\ lastEdit = NoEdit

EditHarnessIdle == ePc = "idle" /\ eInstr = BadJson
ParseHarnessIdle ==
    pPc = "idle" /\ pCmd = <<>> /\ pFile = <<>> /\ pRes = NotParsed
TsHarnessIdle ==
    tsPc = "idle" /\ tsRaw = <<>> /\ tsNorm = <<>> /\ tsSecs = PyNumber(<<>>)

\* the state after VoiceVideoEditor() is constructed
Init ==
    /\ pc = "start" /\ current_file = None /\ edit_history = <<>>
    /\ lastStep = NoStep
    /\ EditorFresh
    /\ EditHarnessIdle /\ ParseHarnessIdle /\ TsHarnessIdle

Next ==
    \/ RunStart /\ UNCHANGED <<eVars, parseVars, tsVars>>
    \/ Choice1 /\ UNCHANGED <<eVars, parseVars, tsVars>>
    \/ Choice2 /\ UNCHANGED <<eVars, parseVars, tsVars>>
    \/ Choice3 /\ UNCHANGED <<eVars, parseVars, tsVars>>
    \/ Choice4 /\ UNCHANGED <<eVars, parseVars, tsVars>>
    \/ ChoiceInvalid /\ UNCHANGED <<eVars, parseVars, tsVars>>

Spec == Init /\ [][Next]_vars

(***************************************************************************)
(* VideoEditor.process_edit called on its own, with every kind of          *)
(* argument: the dict the parser built for a command (the unknown one      *)
(* included), its JSON text, or text json.loads rejects.                   *)
(***************************************************************************)
EditCommands ==
    { <<"t", "r", "i", "m", " ", "f", "r", "o", "m", " ", "1", ":", "3",
        "0", " ", "t", "o", " ", "2", ":", "4", "5">>,
      <<"t", "r", "i", "m", " ", "f", "r", "o", "m", " ", "1", "0", " ",
        "t", "o", " ", "5", "0">>,
      <<"t", "r", "i", "m", " ", "t", "h", "e", " ", "f", "i", "l", "e",
        " ", "v", "a", "c", "a", "t", "i", "o", "n", ".", "m", "p", "4",
        " ", "f", "r", "o", "m", " ", "1", ":", "3", "0", " ", "t", "o",
        " ", "2", ":", "4", "5">>,
      <<"a", "d", "d", " ", "t", "e", "x", "t", " ", "H", "i", " ", "a",
        "t", " ", "t", "o", "p">>,
      <<"a", "d", "d", " ", "f", "a", "d", "e", " ", "t", "r", "a", "n",
        "s", "i", "t", "i", "o", "n">>,
      <<"a", "p", "p", "l", "y", " ", "a", " ", "w", "i", "p", "e", " ",
        "t", "r", "a", "n", "s", "i", "t", "i", "o", "n">>,
      <<"s", "e", "t", " ", "s", "p", "e", "e", "d", " ", "t", "o", " ",
        "2">>,
      <<"c", "r", "o", "p">>,
      <<"u", "n", "d", "o">> }

EditFiles == FileInputs \ { <<>> }

EditDicts ==
    {ParseCommand(c, f).value : c \in EditCommands, f \in EditFiles}

EditInputs ==
    {AsDict(d) : d \in EditDicts} \cup {AsJson(d) : d \in EditDicts}
    \cup {BadJson}

InitEdit ==
    /\ SessionIdle /\ EditorFresh
    /\ ePc = "ready" /\ eInstr \in EditInputs
    /\ ParseHarnessIdle /\ TsHarnessIdle

EditCall ==
    /\ ePc = "ready"
    /\ \E now \in TimeValues, fault \in Faults, duration \in ClipDurations :
          \E out \in {ProcessEdit(eInstr, MOVIEPY_AVAILABLE, disk, now, fault,
                                  duration)} :
              /\ lastEdit' = EditRecord(eInstr, out, duration)
              /\ disk' = disk \cup out.written
              /\ openClips' = openClips \cup Leaked(lastEdit')
    /\ ePc' = "called"
    /\ UNCHANGED <<MOVIEPY_AVAILABLE, eInstr, sessVars, parseVars, tsVars>>

NextEdit == EditCall

SpecEdit == InitEdit /\ [][NextEdit]_vars

(***************************************************************************)
(* CommandProcessor.process_command called on its own, with command texts  *)
(* made of up to MaxClauses fragments joined by single spaces.             *)
(***************************************************************************)
Fragments ==
    { <<"T", "r", "i", "m", " ", "t", "h", "e", " ", "f", "i", "l", "e",
        " ", "v", "a", "c", "a", "t", "i", "o", "n", ".", "m", "p", "4",
        " ", "f", "r", "o", "m", " ", "1", ":", "3", "0", " ", "t", "o",
        " ", "2", ":", "4", "5">>,
      <<"c", "u", "t", " ", "f", "r", "o", "m", " ", "9", "0", " ", "t",
        "o", " ", "1", "0", "0">>,
      <<"A", "d", "d", " ", "t", "e", "x", "t", " ", "s", "a", "y", "i",
        "n", "g", " ", "W", "e", "l", "c", "o", "m", "e", " ", "a", "t",
        " ", "t", "h", "e", " ", "c", "e", "n", "t", "e", "r">>,
      <<"a", "d", "d", " ", "a", " ", "f", "a", "d", "e", " ", "t", "r",
        "a", "n", "s", "i", "t", "i", "o", "n">>,
      <<"s", "e", "t", " ", "s", "p", "e", "e", "d", " ", "t", "o", " ",
        "1", ".", "5", "x">>,
      <<"a", "d", "j", "u", "s", "t", " ", "t", "h", "e", " ", "s", "p",
        "e", "e", "d", " ", "b", "y", " ", "1", ".", "2", ".", "3">>,
      <<"c", "r", "o", "p">>,
      <<"b", "l", "a", "h", " ", "b", "l", "a", "h", " ", "n", "o", "n",
        "s", "e", "n", "s", "e">>,
      <<"a", "t", " ", "t", "i", "m", "e", "s", "t", "a", "m", "p", " ",
        "1", "5">>,
      <<"v", "i", "d", "e", "o", " ", "c", "l", "i", "p", ".", "m", "o",
        "v">> }

RECURSIVE Join(_)
Join(fs) ==
    IF fs = <<>> THEN <<>>
    ELSE IF Len(fs) = 1 THEN fs[1]
    ELSE fs[1] \o <<" ">> \o Join(Tail(fs))

ParseCommands ==
    {Join(fs) : fs \in UNION {[1..k -> Fragments] : k \in 0..MaxClauses}}

ParseFiles ==
    (FileInputs \ { <<>> }) \cup
    { <<"c", "l", "i", "p", "s", "/", "h", "o", "l", "i", "d", "a", "y",
        ".", "m", "o", "v">> }

InitParse ==
    /\ SessionIdle /\ EditorIdle /\ EditHarnessIdle
    /\ pPc = "ready" /\ pCmd \in ParseCommands /\ pFile \in ParseFiles
    /\ pRes = NotParsed
    /\ TsHarnessIdle

ParseCall ==
    /\ pPc = "ready"
    /\ pRes' = ParseCommand(pCmd, pFile)
    /\ pPc' = "parsed"
    /\ UNCHANGED <<pCmd, pFile, sessVars, editVars, eVars, tsVars>>

NextParse == ParseCall

SpecParse == InitParse /\ [][NextParse]_vars

(***************************************************************************)
(* The timestamp functions called on their own: _parse_timestamp on every  *)
(* string the parser's timestamp groups can capture (up to MaxTsLen        *)
(* characters) and on str(n), then _timestamp_to_seconds on the result.    *)
(***************************************************************************)
TsAlphabet == {"0", "1", "3", "9", ":"}

\* the strings the timestamp group of lines 25, 45 and 65 can capture
Capturable(s) == DigitAt(s, 1) /\ TsEnd(s, 1) = Len(s) + 1

LongTimes == {86399, 86400, 359999, 360000}

TsInputs ==
    {s \in UNION {[1..k -> TsAlphabet] : k \in 1..MaxTsLen} : Capturable(s)}
    \cup {Str(n) : n \in 0..MaxSeconds}
    \cup {Str(n) : n \in LongTimes}

InitTS ==
    /\ SessionIdle /\ EditorIdle /\ EditHarnessIdle /\ ParseHarnessIdle
    /\ tsPc = "raw" /\ tsRaw \in TsInputs
    /\ tsNorm = <<>> /\ tsSecs = PyNumber(<<>>)

TsParse ==
    /\ tsPc = "raw"
    /\ tsNorm' = ParseTimestamp(tsRaw)
    /\ tsPc' = "norm"
    /\ UNCHANGED <<tsRaw, tsSecs, sessVars, editVars, eVars, parseVars>>

TsToSeconds ==
    /\ tsPc = "norm"
    /\ tsSecs' = TimestampToSeconds(tsNorm)
    /\ tsPc' = "secs"
    /\ UNCHANGED <<tsRaw, tsNorm, sessVars, editVars, eVars, parseVars>>

NextTS == TsParse \/ TsToSeconds

SpecTS == InitTS /\ [][NextTS]_vars

(***************************************************************************)
(* Properties.                                                             *)
(***************************************************************************)

\* C1: whenever process_edit returns None as its second value, the
\* process_command step that called it leaves current_file unchanged and
\* appends nothing to edit_history, after any sequence of commands and file
\* selections.
C1_NoneOutputKeepsSession ==
    [][(/\ lastStep'.choice = "1"
        /\ lastStep'.dispatched
        /\ ~lastStep'.output_file.some)
       => (current_file' = current_file /\ edit_history' = edit_history)]_vars

\* a fault of the collaborator is caught after an earlier edit went through
C1_FaultAfterEdit ==
    /\ lastStep.choice = "1"
    /\ lastStep.dispatched
    /\ lastStep.result = "moviepy_error"
    /\ ~lastStep.output_file.some
    /\ Len(edit_history) >= 1

EndsWith(s, t) ==
    Len(s) >= Len(t) /\ SubSeq(s, Len(s) - Len(t) + 1, Len(s)) = t

\* C2: for every action other than unknown the output_file of the parser
\* is derived from the source file of the instruction: when the command
\* names a file, the output name is built on that file's base name, not on
\* the current file's.
C2_OutputNamedAfterSource ==
    (pPc = "parsed" /\ ~pRes.raised /\ pRes.value.action # "unknown")
    => EndsWith(pRes.value.output_file,
                <<"_">> \o Basename(pRes.value.file_name))

\* C3: when the parser classifies a command as unknown, process_command
\* does not call the dispatcher, appends no history entry and leaves
\* current_file unchanged, and the instruction the parser returned carries
\* the command text verbatim.
C3_UnknownIsNotDispatched ==
    [][(/\ lastStep'.choice = "1"
        /\ ~lastStep'.parsed.raised
        /\ lastStep'.parsed.value.action = "unknown")
       => (/\ ~lastStep'.dispatched
           /\ UNCHANGED <<current_file, edit_history, editVars>>
           /\ lastStep'.parsed.value.original_command = lastStep'.command)]_vars

\* an unknown command arrives after an edit went through
C3_UnknownAfterEdit ==
    /\ lastStep.choice = "1"
    /\ lastStep.parsed.value.action = "unknown"
    /\ lastStep.command = <<"u", "n", "d", "o">>
    /\ ~lastStep.dispatched
    /\ Len(edit_history) >= 1

\* C4: no failure ends the session: once the menu loop has started, run()
\* is left only by choice 4.
C4_LoopEndsOnlyOnChoice4 ==
    (pc \notin {"start", "menu"} /\ lastStep.choice # "start")
    => (pc = "exited" /\ lastStep.choice = "4")

\* C5: after a call of process_edit has returned, no clip opened by
\* _process_with_moviepy is still open, whatever the exit path.
C5_NoClipLeftOpen ==
    ePc = "called" => openClips = {}

\* HH:MM:SS with two-digit minutes and seconds in 0..59 and at least two
\* digits of hours
ValidHMS(t) ==
    LET parts == Split(t)
    IN  /\ Len(parts) = 3
        /\ \A i \in 1..3 : parts[i] # <<>> /\ AllDigits(parts[i])
        /\ Len(parts[1]) >= 2
        /\ Len(parts[2]) = 2 /\ DigitsValue(parts[2]) <= 59
        /\ Len(parts[3]) = 2 /\ DigitsValue(parts[3]) <= 59

\* C6: every value _parse_timestamp returns, for every string the
\* timestamp groups of the parser can capture, is a valid HH:MM:SS string
\* with minutes and seconds in 0..59.
C6_NormalizedIsValid ==
    tsPc \in {"norm", "secs"} => ValidHMS(tsNorm)

\* the form str(n) has for a non-negative int
IsStrOfNat(s) ==
    s # <<>> /\ AllDigits(s) /\ (Len(s) > 1 => s[1] # "0")

\* C7: _timestamp_to_seconds(_parse_timestamp(str(n))) = n for every
\* non-negative integer n.
C7_RoundTrip ==
    (tsPc = "secs" /\ IsStrOfNat(tsRaw))
    => (tsSecs.ok /\ tsSecs.val = DigitsValue(tsRaw))

\* the round trip of a value of a hundred hours
C7_HundredHours ==
    /\ tsPc = "secs"
    /\ tsRaw = <<"3", "6", "0", "0", "0", "0">>
    /\ tsNorm = <<"1", "0", "0", ":", "0", "0", ":", "0", "0">>
    /\ tsSecs.val = 360000

DetectorOrder ==
    <<"trim", "add_text", "add_transition", "adjust_speed", "crop", "unknown">>

\* whether the detector of a tag matches a command text, given its searches
Matches(m, tag) ==
    CASE tag = "trim"           -> m.trim.ok
      [] tag = "add_text"       -> m.text.ok
      [] tag = "add_transition" -> m.transition.ok
      [] tag = "adjust_speed"   -> m.speed.ok
      [] tag = "crop"           -> m.crop
      [] tag = "unknown"        -> TRUE

\* C8: the action the parser returns is one of the six tags and is the tag
\* of the first detector, in the order trim, add_text, add_transition,
\* adjust_speed, crop, unknown, that matches the command; a command with
\* an add-text clause and the substring "crop" is never classified crop,
\* and is classified add_text unless the trim detector matches too.
C8_FirstDetectorWins ==
    (pPc = "parsed" /\ ~pRes.raised)
    => \E m \in {Searches(pCmd)} :
          /\ \E k \in 1..Len(DetectorOrder) :
                /\ pRes.value.action = DetectorOrder[k]
                /\ Matches(m, DetectorOrder[k])
                /\ \A j \in 1..(k - 1) : ~Matches(m, DetectorOrder[j])
          /\ (m.text.ok /\ m.crop)
             => /\ pRes.value.action # "crop"
                /\ ~m.trim.ok => pRes.value.action = "add_text"

\* a command with an add-text clause and the word crop, classified add_text
C8_TextBeatsCrop ==
    /\ pPc = "parsed"
    /\ ~pRes.raised
    /\ pRes.value.action = "add_text"
    /\ CropSearch(pCmd)

\* C9: when process_edit takes the simulation path (library unavailable or
\* source file not on disk) with a decoded instruction, it writes no file
\* and returns a non-null output file, for every action.
C9_SimulationWritesNothing ==
    (/\ ePc = "called"
     /\ eInstr.decodable
     /\ \/ ~MOVIEPY_AVAILABLE
        \/ Get(eInstr.dict, "file_name", <<>>) \notin DiskInit)
    => /\ lastEdit.path = "simulation"
       /\ lastEdit.output_file.some
       /\ lastEdit.written = {}
       /\ disk = DiskInit

\* the simulation of an unsupported action, with the library available
C9_SimulatedUnknown ==
    /\ ePc = "called"
    /\ MOVIEPY_AVAILABLE
    /\ lastEdit.path = "simulation"
    /\ lastEdit.action \in {"crop", "unknown"}
    /\ lastEdit.output_file.some

\* C10: in delegated mode the end bound a trim passes to the collaborator's
\* subclip never exceeds the duration of the clip.
C10_TrimEndClamped ==
    (ePc = "called" /\ lastEdit.call.op = "subclip")
    => lastEdit.call.b <= lastEdit.duration

\* C11: edit_history is append-only and coupled to current_file: a
\* process_command step either leaves edit_history and current_file both
\* unchanged, or appends exactly one entry at the end of edit_history, the
\* earlier entries and their order unchanged, whose input_file is the
\* previous current_file and whose output_file is the new current_file; no
\* other operation (file selection, show history, exit, an invalid choice)
\* modifies edit_history.
C11_HistoryAppendOnly ==
    [][/\ lastStep'.choice = "1"
          => \/ UNCHANGED <<current_file, edit_history>>
             \/ /\ Len(edit_history') = Len(edit_history) + 1
                /\ SubSeq(edit_history', 1, Len(edit_history)) = edit_history
                /\ current_file.some /\ current_file'.some
                /\ edit_history'[Len(edit_history')].input_file = current_file.v
                /\ edit_history'[Len(edit_history')].output_file = current_file'.v
       /\ lastStep'.choice # "1" => edit_history' = edit_history]_vars

\* a second edit went through: its entry chains to the first one's output
C11_SecondEntryChained ==
    /\ lastStep.choice = "1"
    /\ lastStep.output_file.some
    /\ Len(edit_history) = 2
    /\ edit_history[2].input_file = edit_history[1].output_file
    /\ edit_history[2].output_file = current_file.v
    /\ edit_history[2].output_file # edit_history[2].input_file

====
